---- MODULE Spec2Model ----
(***************************************************************************)
(* The control supervisor of selfdrive/controls/controlsd.py (class        *)
(* Controls): one tick of the 100 Hz loop is one step() call, which runs   *)
(* data_sample, update_events, state_transition (gated), state_control,    *)
(* publish_logs and update_button_timers in that order.  The Controls      *)
(* object is the record `self`, the SubMaster the record `sm`; the         *)
(* CarState and the subscription snapshots a tick samples are its input    *)
(* record, kept in `CS` after the tick.                                    *)
(***************************************************************************)
EXTENDS Integers, Sequences, FiniteSets, TLC

VARIABLES
  self,      \* the Controls object: its fields
  sm,        \* the SubMaster: frame
  CS,        \* what the last tick sampled (CarState and subscription snapshots)
  io,        \* the last tick: the state it started in, whether it ran
             \* state_transition, the messages it sent, the calls it made
  running,   \* FALSE once step() has raised an exception out of the loop
  soft_age   \* observer: ticks spent in softDisabling since it was entered

vars == <<self, sm, CS, io, running, soft_age>>

----------------------------------------------------------------------------
(* Bounds of the model: the number of ticks each specification runs.       *)
MaxFrame == 4
MaxFrameSoft == 303
MaxFrameInit == 353
MaxFrameLdw == 502
MaxFrameSpeed == 3
MaxFrameCurve == 12
MaxFrameMismatch == 203
MaxFrameCruiseMismatch == 304
MaxFrameAdvisory == 5
MaxFrameCan == 4
MaxFrameAct == 2
MaxFrameSteer == 103

(* Program constants.                                                      *)
SOFT_DISABLE_TIME == 3
HZ == 100
INIT_TIMEOUT_DS == 35
BLINKER_COOLDOWN_S == 5
V_CRUISE_INIT == 255
CAR_PARAMS_PERIOD_S == 50

CURVE_SPEED_PERIOD == 10
CURVE_FACTOR_PCT == 70
CURVE_FLOOR_KPH == 32
NO_CURVE_LIMIT == 255
ROAD_LIMIT_MIN_KPH == 30
LEAD_SEED_MS == 3
LEAD_OFFSET_M == 5
LOW_PASS_DIV == 100
MISMATCH_LIMIT == 200
CRUISE_MISMATCH_S == 3
STEER_ANGLE_SATURATION_TIMEOUT == 100
STEER_ANGLE_SATURATION_THRESHOLD == 25   \* tenths of a degree
PATH_DEVIATION == 115                   \* mm
JOYSTICK_SATURATED == 9                 \* tenths of the full steer command

\* speeds that the code keeps as floats are counted in 1/Unit
Unit == 10000

\* common.realtime.DT_CTRL is 0.01 s: a duration of n seconds is n * HZ ticks
SOFT_DISABLE_TICKS == SOFT_DISABLE_TIME * HZ

\* drive_helpers' limits (kph)
V_CRUISE_MAX == 135
V_CRUISE_MIN == 8
V_CRUISE_ENABLE_MIN == 40

\* selfdrive.car.gm.values
SLOW_ON_CURVES == TRUE
MIN_CURVE_SPEED == 88889

\* LDW_MIN_SPEED = 31 * CV.MPH_TO_MS, in 1e-5 m/s
LDW_MIN_SPEED == 31 * 44704

ET == [ENABLE |-> "enable", PRE_ENABLE |-> "preEnable", NO_ENTRY |-> "noEntry",
       WARNING |-> "warning", USER_DISABLE |-> "userDisable",
       SOFT_DISABLE |-> "softDisable", IMMEDIATE_DISABLE |-> "immediateDisable",
       PERMANENT |-> "permanent"]

State == [disabled |-> "disabled", preEnabled |-> "preEnabled",
          enabled |-> "enabled", softDisabling |-> "softDisabling"]

SafetyModel == [car |-> "car", silent |-> "silent", noOutput |-> "noOutput",
                elm327 |-> "elm327"]
IGNORED_SAFETY_MODES == {SafetyModel.silent, SafetyModel.noOutput}
SafetyConfig(safetyModel, safetyParam) ==
  [safetyModel |-> safetyModel, safetyParam |-> safetyParam]
PandaState(safetyModel, safetyParam, controlsAllowed) ==
  [safetyModel |-> safetyModel, safetyParam |-> safetyParam,
   controlsAllowed |-> controlsAllowed]

Calibration == [UNCALIBRATED |-> 0, CALIBRATED |-> 1, INVALID |-> 2]

\* the alert types each event carries (selfdrive/controls/lib/events.py)
EVENTS == [
  buttonEnable |-> {ET.ENABLE},
  gasPressed |-> {ET.PRE_ENABLE},
  buttonCancel |-> {ET.USER_DISABLE},
  belowEngageSpeed |-> {ET.NO_ENTRY},
  speedTooLow |-> {ET.IMMEDIATE_DISABLE},
  controlsMismatch |-> {ET.IMMEDIATE_DISABLE},
  cruiseMismatch |-> {},
  wrongGear |-> {ET.SOFT_DISABLE, ET.NO_ENTRY},
  startup |-> {ET.PERMANENT},
  dashcamMode |-> {ET.PERMANENT},
  carUnrecognized |-> {ET.PERMANENT},
  communityFeatureDisallowed |-> {ET.PERMANENT},
  controlsInitializing |-> {ET.NO_ENTRY},
  calibrationIncomplete |-> {ET.PERMANENT, ET.SOFT_DISABLE, ET.NO_ENTRY},
  calibrationInvalid |-> {ET.PERMANENT, ET.SOFT_DISABLE, ET.NO_ENTRY},
  canError |-> {ET.IMMEDIATE_DISABLE, ET.PERMANENT, ET.NO_ENTRY},
  radarFault |-> {ET.SOFT_DISABLE, ET.NO_ENTRY},
  usbError |-> {ET.SOFT_DISABLE, ET.PERMANENT, ET.NO_ENTRY},
  commIssue |-> {ET.SOFT_DISABLE, ET.NO_ENTRY},
  ldw |-> {ET.PERMANENT},
  joystickDebug |-> {ET.WARNING, ET.PERMANENT},
  slowingDownSpeed |-> {ET.PERMANENT},
  slowingDownSpeedSound |-> {ET.PERMANENT},
  steerSaturated |-> {ET.WARNING}]

\* the events a car interface or the driver monitor can put in CS.events
CarEvents == {"buttonEnable", "gasPressed", "buttonCancel", "belowEngageSpeed",
              "speedTooLow", "wrongGear"}

\* Events.any(event_type)
any(events, et) == \E e \in events : et \in EVENTS[e]

\* clear that leaves the events of the tick before in the set
clear_keeps_events(s) == s.static_events \cup s.events

\* Events.clear(): everything but the static events goes
clear(s) == s.static_events

----------------------------------------------------------------------------
(* Floats: a finite value, NaN, or an infinity.                            *)
Fin(x) == [k |-> "fin", v |-> x]
NaN == [k |-> "nan", v |-> 0]
Inf(sign) == [k |-> "inf", v |-> sign]
isfinite(x) == x.k = "fin"

----------------------------------------------------------------------------
(* __init__                                                                *)

\* the parameters and the fingerprint the constructor reads
Params(recognized, available, disallowed, ldw, simulation) ==
  [car_recognized : recognized, controller_available : available,
   community_feature_disallowed : disallowed, IsLdwEnabled : ldw,
   SIMULATION : simulation, JoystickDebugMode : {FALSE}, pcmCruise : {TRUE},
   REPLAY : {FALSE}, steerControlType : {"torque"}]

\* the same with JoystickDebugMode and the car's CP.pcmCruise drawn as well
Configured(P, joystick, pcmCruise) ==
  { [p EXCEPT !.JoystickDebugMode = j, !.pcmCruise = c] :
      p \in P, j \in joystick, c \in pcmCruise }

\* the same with the car's CP.steerControlType drawn as well
Steered(P, steerControlType) ==
  { [p EXCEPT !.steerControlType = t] : p \in P, t \in steerControlType }

\* the same with the REPLAY environment flag drawn as well
Environment(P, replay) == { [p EXCEPT !.REPLAY = r] : p \in P, r \in replay }

read_only(p) ==
  ~p.car_recognized \/ ~p.controller_available \/ p.community_feature_disallowed

static_events(p) ==
  (IF p.community_feature_disallowed /\ p.car_recognized
     THEN {"communityFeatureDisallowed"} ELSE {})
  \cup (IF ~p.car_recognized THEN {"carUnrecognized"}
        ELSE IF read_only(p) THEN {"dashcamMode"}
        ELSE IF p.JoystickDebugMode THEN {"joystickDebug"} ELSE {})

CarControl_new_message ==
  [enabled |-> FALSE, active |-> FALSE,
   actuators |-> [accel |-> Fin(0), steer |-> Fin(0), steeringAngleDeg |-> Fin(0),
                  longControlState |-> [k |-> "enum", v |-> "off"]],
   cruiseControl |-> [cancel |-> FALSE],
   leftLaneDepart |-> FALSE, rightLaneDepart |-> FALSE]

None == "None"

Controls(p) ==
  [read_only |-> read_only(p),
   is_ldw_enabled |-> p.IsLdwEnabled,
   SIMULATION |-> p.SIMULATION,
   REPLAY |-> p.REPLAY,
   joystick_mode |-> p.JoystickDebugMode,
   pcmCruise |-> p.pcmCruise,
   steerControlType |-> p.steerControlType,
   saturated_count |-> 0,
   CC |-> CarControl_new_message,
   static_events |-> static_events(p),
   events |-> static_events(p),
   initialized |-> FALSE,
   state |-> State.disabled,
   enabled |-> FALSE,
   active |-> FALSE,
   can_rcv_error |-> FALSE,
   can_error_counter |-> 0,
   mismatch_counter |-> 0,
   cruise_mismatch_counter |-> 0,
   safetyConfigs |-> <<SafetyConfig(IF read_only(p) THEN SafetyModel.noOutput
                                    ELSE SafetyModel.car, 0)>>,
   soft_disable_timer |-> 0,
   v_cruise_kph |-> V_CRUISE_INIT,
   v_cruise_kph_last |-> 0,
   max_speed_clu |-> 0,
   curve_speed_ms |-> 0,
   limited_lead |-> FALSE,
   slowing_down |-> FALSE,
   slowing_down_alert |-> FALSE,
   slowing_down_sound_alert |-> FALSE,
   last_blinker_frame |-> 0,
   events_prev |-> {},
   current_alert_types |-> <<ET.PERMANENT>>,
   button_timers |-> [decelCruise |-> 0, accelCruise |-> 0],
   startup_event |-> IF ~read_only(p) /\ p.JoystickDebugMode THEN None
                     ELSE "startup"]

\* a tick's record of the outside before it has sent or called anything
NoIo == [state_was |-> State.disabled, ran_state_transition |-> FALSE,
         published |-> <<>>, CI_init |-> FALSE, put_ControlsReady |-> FALSE,
         update_max_speed |-> -1, lead_seed |-> FALSE, first_started_seed |-> FALSE,
         CI_update |-> <<>>, carControl |-> <<>>]

\* what a tick reads when nothing is wrong and nobody touches the car
Quiet == [can_strs |-> TRUE, canValid |-> TRUE, all_alive_and_valid |-> TRUE,
          pandaStates_valid |-> TRUE, pandaStates |-> <<>>, radarErrors |-> FALSE,
          calStatus |-> Calibration.CALIBRATED,
          CS_steeringAngleDeg |-> 1, steeringPressed |-> FALSE,
          lac_saturated |-> FALSE, dPathPoints |-> <<>>,
          events |-> {}, adaptiveCruise |-> TRUE, cruiseEnabled |-> FALSE,
          regenPressed |-> FALSE, buttonEvents |-> <<>>, vEgo |-> 20,
          blinker |-> FALSE, desirePrediction |-> FALSE,
          accel |-> Fin(1), steer |-> Fin(1), steeringAngleDeg |-> Fin(1),
          longControlState |-> [k |-> "enum", v |-> "pid"],
          testJoystick |-> [rcv_frame |-> 0, axes |-> <<0, 0>>, buttons |-> <<FALSE>>],
          position_valid |-> TRUE, v_curvature |-> Fin(100 * Unit),
          leadOne |-> [status |-> FALSE, dRel |-> 0, vRel |-> 0],
          road_limit |-> [apply_limit_speed |-> 0, first_started |-> FALSE]]

InitWith(P) ==
  /\ \E p \in P : self = Controls(p)
  /\ sm = [frame |-> -1]
  /\ CS = Quiet
  /\ io = NoIo
  /\ running = TRUE
  /\ soft_age = 0

----------------------------------------------------------------------------
(* data_sample                                                             *)

\* init_condition with the timeout reached at 3.5 s sharp
init_condition_at_timeout(s, frame, in) ==
  LET all_valid == in.canValid /\ in.all_alive_and_valid
  IN  all_valid \/ frame * 10 >= INIT_TIMEOUT_DS * HZ \/ s.SIMULATION

\* the condition under which an uninitialized supervisor initializes
init_condition(s, frame, in) ==
  LET all_valid == in.canValid /\ in.all_alive_and_valid
  IN  all_valid \/ frame * 10 > INIT_TIMEOUT_DS * HZ \/ s.SIMULATION

\* count_mismatch that keeps the count of a supervisor that is not enabled
count_mismatch_no_reset(s, in) ==
  IF \E i \in DOMAIN in.pandaStates :
       /\ in.pandaStates[i].safetyModel \notin IGNORED_SAFETY_MODES
       /\ ~in.pandaStates[i].controlsAllowed /\ s.enabled
    THEN s.mismatch_counter + 1
    ELSE s.mismatch_counter

\* "All pandas not in silent mode must have controlsAllowed when openpilot is
\* enabled": the count of the ticks in which one has not
count_mismatch(s, in) ==
  LET counter == IF ~s.enabled THEN 0 ELSE s.mismatch_counter
  IN  IF \E i \in DOMAIN in.pandaStates :
           /\ in.pandaStates[i].safetyModel \notin IGNORED_SAFETY_MODES
           /\ ~in.pandaStates[i].controlsAllowed /\ s.enabled
        THEN counter + 1
        ELSE counter

\* count_can_error that counts every tick
count_can_error_every_tick(s, in) == s.can_error_counter + 1

\* "Check for CAN timeout": the counter after the tick's drain of the bus
count_can_error(s, in) ==
  IF ~in.can_strs THEN s.can_error_counter + 1 ELSE s.can_error_counter

data_sample(w, in) ==
  LET s == w.self
      frame == w.sm.frame + 1
      flip == ~s.initialized /\ init_condition(s, frame, in)
  IN  [w EXCEPT !.sm.frame = frame,
                !.io.CI_update = <<s.CC>>,
                !.io.CI_init = flip /\ ~s.read_only,
                !.self.initialized = @ \/ flip,
                !.io.put_ControlsReady = flip,
                !.self.can_rcv_error = ~in.can_strs,
                !.self.can_error_counter = count_can_error(s, in),
                !.self.mismatch_counter = count_mismatch(s, in)]

----------------------------------------------------------------------------
(* update_events                                                           *)

\* safety_mismatch of the panda at index i: "All pandas must match the list of
\* safetyConfigs, and if outside this list, must be silent or noOutput"
safety_mismatch(s, i, pandaState) ==
  IF i <= Len(s.safetyConfigs)
    THEN \/ pandaState.safetyModel # s.safetyConfigs[i].safetyModel
         \/ pandaState.safetyParam # s.safetyConfigs[i].safetyParam
    ELSE pandaState.safetyModel \notin IGNORED_SAFETY_MODES

\* counter_trips that waits for the counter to pass the limit
counter_trips_past_limit(mismatch_counter) == mismatch_counter > MISMATCH_LIMIT

\* the test of the counter that raises controlsMismatch
counter_trips(mismatch_counter) == mismatch_counter >= MISMATCH_LIMIT

controls_mismatch(s, in) ==
  \E i \in DOMAIN in.pandaStates :
     safety_mismatch(s, i, in.pandaStates[i]) \/ counter_trips(s.mismatch_counter)

\* "Check for mismatch between openpilot and car's PCM"
cruise_mismatch(s, in) == in.cruiseEnabled /\ (~s.enabled \/ ~s.pcmCruise)

\* count_cruise_mismatch that keeps counting through a tick without mismatch
count_cruise_mismatch_no_reset(s, in) ==
  IF s.REPLAY THEN s.cruise_mismatch_counter
  ELSE IF cruise_mismatch(s, in) THEN s.cruise_mismatch_counter + 1
  ELSE s.cruise_mismatch_counter

\* cruise_mismatch_counter after update_events, outside replay
count_cruise_mismatch(s, in) ==
  IF s.REPLAY THEN s.cruise_mismatch_counter
  ELSE IF cruise_mismatch(s, in) THEN s.cruise_mismatch_counter + 1
  ELSE 0

\* slowing_down_events with an if where the code has an elif
slowing_down_events_both(s) ==
  (IF s.slowing_down_sound_alert THEN {"slowingDownSpeedSound"} ELSE {})
  \cup (IF s.slowing_down_alert THEN {"slowingDownSpeed"} ELSE {})

\* the speed-limit advisory: the sound once, the plain advisory otherwise
slowing_down_events(s) ==
  IF s.slowing_down_sound_alert THEN {"slowingDownSpeedSound"}
  ELSE IF s.slowing_down_alert THEN {"slowingDownSpeed"}
  ELSE {}

\* the events added once the supervisor is initialized
initialized_events(s, in) ==
  (IF in.calStatus # Calibration.CALIBRATED
     THEN IF in.calStatus = Calibration.UNCALIBRATED
            THEN {"calibrationIncomplete"} ELSE {"calibrationInvalid"}
     ELSE {})
  \cup (IF s.can_rcv_error \/ ~in.canValid THEN {"canError"} ELSE {})
  \cup (IF controls_mismatch(s, in) THEN {"controlsMismatch"} ELSE {})
  \cup (IF in.radarErrors THEN {"radarFault"}
        ELSE IF ~in.pandaStates_valid THEN {"usbError"}
        ELSE IF ~in.all_alive_and_valid THEN {"commIssue"}
        ELSE {})
  \cup (IF ~s.REPLAY /\ count_cruise_mismatch(s, in) > CRUISE_MISMATCH_S * HZ
          THEN {"cruiseMismatch"} ELSE {})
  \cup slowing_down_events(s)

update_events(w, in) ==
  LET s == w.self
      first == clear(s) \cup in.events
               \cup (IF s.startup_event # None THEN {s.startup_event} ELSE {})
  IN  [w EXCEPT !.self.startup_event = None,
                !.self.slowing_down_sound_alert = @ /\ ~s.initialized,
                !.self.cruise_mismatch_counter =
                   IF s.initialized THEN count_cruise_mismatch(s, in) ELSE @,
                !.self.events =
                   IF ~s.initialized THEN first \cup {"controlsInitializing"}
                   ELSE first \cup initialized_events(s, in)]

----------------------------------------------------------------------------
(* drive_helpers: the set-speed functions state_transition calls           *)

clip(x, lo, hi) == IF x < lo THEN lo ELSE IF x > hi THEN hi ELSE x

\* m/s to kph, rounded to the nearest integer
ms_to_kph(v) == (v * 36 + 5) \div 10

\* a released accel/decel button moves the set-speed by one step while enabled
\* (the long press, which takes the hold timers, is left out)
update_v_cruise(v_cruise_kph, buttonEvents, enabled) ==
  IF ~enabled \/ buttonEvents = <<>> THEN v_cruise_kph
  ELSE LET b == buttonEvents[1]
       IN  IF b.pressed THEN v_cruise_kph
           ELSE clip(v_cruise_kph + (IF b.type = "accelCruise" THEN 1 ELSE -1),
                     V_CRUISE_MIN, V_CRUISE_MAX)

update_v_cruise_regen(v_ego, v_cruise_kph, regenPressed, enabled) ==
  IF enabled /\ regenPressed
    THEN clip(ms_to_kph(v_ego), V_CRUISE_MIN, V_CRUISE_MAX)
    ELSE v_cruise_kph

initialize_v_cruise(v_ego, buttonEvents, v_cruise_last) ==
  IF (\E i \in DOMAIN buttonEvents : buttonEvents[i].type = "accelCruise")
     /\ v_cruise_last < 250
    THEN v_cruise_last
    ELSE clip(ms_to_kph(v_ego), V_CRUISE_ENABLE_MIN, V_CRUISE_MAX)

----------------------------------------------------------------------------
(* state_transition                                                        *)

\* cruise_update that handles the buttons as if the supervisor were enabled
cruise_update_as_enabled(s, in) ==
  IF in.adaptiveCruise
    THEN LET v == update_v_cruise(s.v_cruise_kph, in.buttonEvents, TRUE)
         IN  IF in.regenPressed
               THEN update_v_cruise_regen(in.vEgo, v, in.regenPressed, TRUE)
               ELSE v
    ELSE IF in.cruiseEnabled THEN 30 ELSE s.v_cruise_kph

\* the set-speed update at the head of state_transition
cruise_update(s, in) ==
  IF in.adaptiveCruise
    THEN LET v == update_v_cruise(s.v_cruise_kph, in.buttonEvents, s.enabled)
         IN  IF in.regenPressed
               THEN update_v_cruise_regen(in.vEgo, v, in.regenPressed, s.enabled)
               ELSE v
    ELSE IF in.cruiseEnabled THEN 30 ELSE s.v_cruise_kph

\* decrement_timer without the floor at 0
decrement_timer_no_floor(soft_disable_timer) == soft_disable_timer - 1

\* decrement_timer counting down by two
decrement_timer_by_two(soft_disable_timer) ==
  IF soft_disable_timer - 2 > 0 THEN soft_disable_timer - 2 ELSE 0

decrement_timer(soft_disable_timer) ==
  IF soft_disable_timer - 1 > 0 THEN soft_disable_timer - 1 ELSE 0

\* a result of the state machine: the state, the timer, the alert types appended,
\* and whether the set-speed is initialized
Moved(state, timer, types, init) ==
  [state |-> state, soft_disable_timer |-> timer, types |-> types, init |-> init]

\* by_state whose softDisabling branch lacks the return to enabled
by_state_no_recovery(state, timer, events) ==
  IF state = State.enabled
    THEN IF any(events, ET.SOFT_DISABLE)
           THEN Moved(State.softDisabling, SOFT_DISABLE_TICKS, <<ET.SOFT_DISABLE>>, FALSE)
           ELSE Moved(state, timer, <<>>, FALSE)
  ELSE IF state = State.softDisabling
    THEN IF timer <= 0
           THEN Moved(State.disabled, timer, <<>>, FALSE)
         ELSE IF ~any(events, ET.SOFT_DISABLE)
           THEN Moved(state, timer, <<>>, FALSE)
         ELSE Moved(state, timer, <<ET.SOFT_DISABLE>>, FALSE)
  ELSE IF state = State.preEnabled
    THEN IF ~any(events, ET.PRE_ENABLE)
           THEN Moved(State.enabled, timer, <<>>, FALSE)
           ELSE Moved(state, timer, <<ET.PRE_ENABLE>>, FALSE)
  ELSE Moved(state, timer, <<>>, FALSE)

\* by_state that enters softDisabling without setting the timer
by_state_no_reset(state, timer, events) ==
  IF state = State.enabled
    THEN IF any(events, ET.SOFT_DISABLE)
           THEN Moved(State.softDisabling, timer, <<ET.SOFT_DISABLE>>, FALSE)
           ELSE Moved(state, timer, <<>>, FALSE)
  ELSE IF state = State.softDisabling
    THEN IF ~any(events, ET.SOFT_DISABLE)
           THEN Moved(State.enabled, timer, <<>>, FALSE)
         ELSE IF any(events, ET.SOFT_DISABLE) /\ timer > 0
           THEN Moved(state, timer, <<ET.SOFT_DISABLE>>, FALSE)
         ELSE IF timer <= 0
           THEN Moved(State.disabled, timer, <<>>, FALSE)
         ELSE Moved(state, timer, <<>>, FALSE)
  ELSE IF state = State.preEnabled
    THEN IF ~any(events, ET.PRE_ENABLE)
           THEN Moved(State.enabled, timer, <<>>, FALSE)
           ELSE Moved(state, timer, <<ET.PRE_ENABLE>>, FALSE)
  ELSE Moved(state, timer, <<>>, FALSE)

\* by_state whose preEnabled branch soft-disables on a SOFT_DISABLE event
by_state_soft_from_pre(state, timer, events) ==
  IF state = State.enabled \/ (state = State.preEnabled /\ any(events, ET.SOFT_DISABLE))
    THEN IF any(events, ET.SOFT_DISABLE)
           THEN Moved(State.softDisabling, SOFT_DISABLE_TICKS, <<ET.SOFT_DISABLE>>, FALSE)
           ELSE Moved(state, timer, <<>>, FALSE)
  ELSE IF state = State.softDisabling
    THEN IF ~any(events, ET.SOFT_DISABLE)
           THEN Moved(State.enabled, timer, <<>>, FALSE)
         ELSE IF any(events, ET.SOFT_DISABLE) /\ timer > 0
           THEN Moved(state, timer, <<ET.SOFT_DISABLE>>, FALSE)
         ELSE IF timer <= 0
           THEN Moved(State.disabled, timer, <<>>, FALSE)
         ELSE Moved(state, timer, <<>>, FALSE)
  ELSE IF state = State.preEnabled
    THEN IF ~any(events, ET.PRE_ENABLE)
           THEN Moved(State.enabled, timer, <<>>, FALSE)
           ELSE Moved(state, timer, <<ET.PRE_ENABLE>>, FALSE)
  ELSE Moved(state, timer, <<>>, FALSE)

\* ENABLED, SOFT DISABLING, PRE ENABLING: the branch taken when no user or
\* immediate disable is present
by_state(state, timer, events) ==
  IF state = State.enabled
    THEN IF any(events, ET.SOFT_DISABLE)
           THEN Moved(State.softDisabling, SOFT_DISABLE_TICKS, <<ET.SOFT_DISABLE>>, FALSE)
           ELSE Moved(state, timer, <<>>, FALSE)
  ELSE IF state = State.softDisabling
    THEN IF ~any(events, ET.SOFT_DISABLE)
           THEN Moved(State.enabled, timer, <<>>, FALSE)
         ELSE IF any(events, ET.SOFT_DISABLE) /\ timer > 0
           THEN Moved(state, timer, <<ET.SOFT_DISABLE>>, FALSE)
         ELSE IF timer <= 0
           THEN Moved(State.disabled, timer, <<>>, FALSE)
         ELSE Moved(state, timer, <<>>, FALSE)
  ELSE IF state = State.preEnabled
    THEN IF ~any(events, ET.PRE_ENABLE)
           THEN Moved(State.enabled, timer, <<>>, FALSE)
           ELSE Moved(state, timer, <<ET.PRE_ENABLE>>, FALSE)
  ELSE Moved(state, timer, <<>>, FALSE)

\* from_engaged with the immediate disable tested before the user disable
from_engaged_immediate_first(state, timer, events) ==
  IF any(events, ET.IMMEDIATE_DISABLE)
    THEN Moved(State.disabled, timer, <<ET.IMMEDIATE_DISABLE>>, FALSE)
  ELSE IF any(events, ET.USER_DISABLE)
    THEN Moved(State.disabled, timer, <<ET.USER_DISABLE>>, FALSE)
  ELSE by_state(state, timer, events)

\* ENABLED, PRE ENABLING, SOFT DISABLING: "user and immediate disable always
\* have priority in a non-disabled state"
from_engaged(state, timer, events) ==
  IF any(events, ET.USER_DISABLE)
    THEN Moved(State.disabled, timer, <<ET.USER_DISABLE>>, FALSE)
  ELSE IF any(events, ET.IMMEDIATE_DISABLE)
    THEN Moved(State.disabled, timer, <<ET.IMMEDIATE_DISABLE>>, FALSE)
  ELSE by_state(state, timer, events)

\* from_disabled that engages in spite of a NO_ENTRY event
from_disabled_no_gate(state, timer, events) ==
  IF any(events, ET.ENABLE)
    THEN Moved(IF any(events, ET.PRE_ENABLE) THEN State.preEnabled
               ELSE State.enabled,
               timer, <<ET.ENABLE>>, TRUE)
    ELSE Moved(state, timer, <<>>, FALSE)

\* from_disabled that engages straight into enabled
from_disabled_no_pre(state, timer, events) ==
  IF any(events, ET.ENABLE)
    THEN IF any(events, ET.NO_ENTRY)
           THEN Moved(state, timer, <<ET.NO_ENTRY>>, FALSE)
           ELSE Moved(State.enabled, timer, <<ET.ENABLE>>, TRUE)
    ELSE Moved(state, timer, <<>>, FALSE)

\* DISABLED
from_disabled(state, timer, events) ==
  IF any(events, ET.ENABLE)
    THEN IF any(events, ET.NO_ENTRY)
           THEN Moved(state, timer, <<ET.NO_ENTRY>>, FALSE)
           ELSE Moved(IF any(events, ET.PRE_ENABLE) THEN State.preEnabled
                      ELSE State.enabled,
                      timer, <<ET.ENABLE>>, TRUE)
    ELSE Moved(state, timer, <<>>, FALSE)

\* "Check if actuators are enabled"
is_active(state) == state = State.enabled \/ state = State.softDisabling

\* is_enabled without the preEnabled case
is_enabled_active_only(active, state) == active

\* "Check if openpilot is engaged"
is_enabled(active, state) == active \/ state = State.preEnabled

\* the last set-speed left as the constructor or an earlier tick set it
last_set_speed_kept(s) == s.v_cruise_kph_last

\* v_cruise_kph_last as the head of state_transition sets it
last_set_speed(s) == s.v_cruise_kph

\* alert_types that appends WARNING whether or not the actuators are enabled
alert_types_warning_always(types, active) ==
  <<ET.PERMANENT>> \o types \o <<ET.WARNING>>

\* current_alert_types: PERMANENT, what the state's branch appended, and
\* WARNING when the actuators are enabled
alert_types(types, active) ==
  <<ET.PERMANENT>> \o types \o (IF active THEN <<ET.WARNING>> ELSE <<>>)

state_transition(w, in) ==
  LET s == w.self
      last == last_set_speed(s)
      timer == decrement_timer(s.soft_disable_timer)
      m == IF s.state # State.disabled
             THEN from_engaged(s.state, timer, s.events)
             ELSE from_disabled(s.state, timer, s.events)
      active == is_active(m.state)
  IN  [w EXCEPT !.io.ran_state_transition = TRUE,
                !.self.v_cruise_kph_last = last,
                !.self.v_cruise_kph =
                   IF m.init
                     THEN initialize_v_cruise(in.vEgo, in.buttonEvents, last)
                     ELSE cruise_update(s, in),
                !.self.soft_disable_timer = m.soft_disable_timer,
                !.self.state = m.state,
                !.self.current_alert_types = alert_types(m.types, active),
                !.self.active = active,
                !.self.enabled = is_enabled(active, m.state)]

----------------------------------------------------------------------------
(* state_control                                                           *)

ACTUATOR_FIELDS == {"accel", "steer", "steeringAngleDeg", "longControlState"}

\* isinstance(attr, Number)
Number(attr) == attr.k # "enum"

\* ensure_finite that tests for NaN alone
ensure_not_nan(actuators) ==
  [p \in ACTUATOR_FIELDS |->
     IF ~Number(actuators[p]) THEN actuators[p]
     ELSE IF actuators[p].k = "nan" THEN Fin(0)
     ELSE actuators[p]]

\* "Ensure no NaNs/Infs"
ensure_finite(actuators) ==
  [p \in ACTUATOR_FIELDS |->
     IF ~Number(actuators[p]) THEN actuators[p]
     ELSE IF ~isfinite(actuators[p]) THEN Fin(0)
     ELSE actuators[p]]

\* what the longitudinal and the lateral controller return for this tick
controllers(in) ==
  [accel |-> in.accel, steer |-> in.steer,
   steeringAngleDeg |-> in.steeringAngleDeg,
   longControlState |-> in.longControlState]

\* joystick debug mode: the actuators come from the joystick's axes, and only
\* while active and once a testJoystick message has arrived
joystick(s, in) ==
  LET fresh == CarControl_new_message.actuators
      steer == clip(in.testJoystick.axes[2], -1, 1)
  IN  IF in.testJoystick.rcv_frame > 0 /\ s.active
        THEN [fresh EXCEPT !.accel = Fin(4 * clip(in.testJoystick.axes[1], -1, 1)),
                           !.steer = Fin(steer),
                           !.steeringAngleDeg = Fin(steer * 45),
                           !.longControlState = in.longControlState]
        ELSE [fresh EXCEPT !.longControlState = in.longControlState]

abs(x) == IF x < 0 THEN -x ELSE x

\* a float above 0, below 0
positive(x) == (x.k = "fin" /\ x.v > 0) \/ (x.k = "inf" /\ x.v > 0)
negative(x) == (x.k = "fin" /\ x.v < 0) \/ (x.k = "inf" /\ x.v < 0)

\* lac_log.saturated: the lateral controller's in normal operation, the
\* joystick's own in joystick debug mode
lac_log_saturated(s, in) ==
  IF s.joystick_mode
    THEN /\ in.testJoystick.rcv_frame > 0
         /\ s.active
         /\ 10 * abs(clip(in.testJoystick.axes[2], -1, 1)) >= JOYSTICK_SATURATED
    ELSE in.lac_saturated

\* "Check for difference between desired angle and angle for angle based
\* control"
angle_control_saturated(s, actuators, in) ==
  /\ s.steerControlType = "angle"
  /\ \/ actuators.steeringAngleDeg.k = "inf"
     \/ /\ actuators.steeringAngleDeg.k = "fin"
        /\ 10 * abs(actuators.steeringAngleDeg.v - in.CS_steeringAngleDeg)
             > STEER_ANGLE_SATURATION_THRESHOLD

\* count_saturated that counts whether or not the supervisor is active
count_saturated_inactive_too(s, actuators, in) ==
  IF angle_control_saturated(s, actuators, in) /\ ~in.steeringPressed
    THEN s.saturated_count + 1
    ELSE 0

\* saturated_count after the tick
count_saturated(s, actuators, in) ==
  IF angle_control_saturated(s, actuators, in) /\ ~in.steeringPressed /\ s.active
    THEN s.saturated_count + 1
    ELSE 0

\* "Check if we deviated from the path"
deviated(actuators, in) ==
  /\ Len(in.dPathPoints) > 0
  /\ \/ positive(actuators.steer) /\ in.dPathPoints[1] < -PATH_DEVIATION
     \/ negative(actuators.steer) /\ in.dPathPoints[1] > PATH_DEVIATION

\* "Send a "steering required alert" if saturation count has reached the
\* limit"
steer_saturated(s, saturated_count, actuators, in) ==
  /\ \/ lac_log_saturated(s, in) /\ ~in.steeringPressed
     \/ saturated_count > STEER_ANGLE_SATURATION_TIMEOUT
  /\ deviated(actuators, in)

state_control(w, in) ==
  LET s == w.self
      actuators == IF s.joystick_mode THEN joystick(s, in) ELSE controllers(in)
      count == count_saturated(s, actuators, in)
  IN  [w EXCEPT !.self.last_blinker_frame =
                   IF in.blinker THEN w.sm.frame ELSE @,
                !.self.saturated_count = count,
                !.self.events =
                   @ \cup (IF steer_saturated(s, count, actuators, in)
                             THEN {"steerSaturated"} ELSE {}),
                !.actuators = ensure_finite(actuators)]

----------------------------------------------------------------------------
(* cal_max_speed and what it calls                                         *)

min(a, b) == IF a < b THEN a ELSE b
max(a, b) == IF a > b THEN a ELSE b

\* kph_to_clu on a metric car: int(kph * KPH_TO_MS * MS_TO_KPH) is kph for
\* every whole kph from 0 to 255
kph_to_clu(kph) == kph

\* x / n rounded to the nearest 1/Unit
rdiv(x, n) == (2 * x + n) \div (2 * n)

\* the cal_curve_speed that is in force, the second of the two definitions
cal_curve_speed(curve_speed_ms, frame, in) ==
  IF frame % CURVE_SPEED_PERIOD = 0
    THEN IF in.position_valid /\ isfinite(in.v_curvature)
           THEN LET model_speed == (in.v_curvature.v * CURVE_FACTOR_PCT) \div 100
                IN  IF model_speed < in.vEgo * Unit
                      THEN max(model_speed, rdiv(CURVE_FLOOR_KPH * Unit * 10, 36))
                      ELSE NO_CURVE_LIMIT * Unit
           ELSE NO_CURVE_LIMIT * Unit
    ELSE curve_speed_ms

\* get_long_lead_safe_speed, 0 when no lead binds
get_long_lead_safe_speed(in) ==
  LET lead == in.leadOne
      d == lead.dRel - LEAD_OFFSET_M
  IN  IF /\ in.adaptiveCruise
         /\ lead.status
         /\ 0 < d
         /\ d < -lead.vRel * 24
         /\ lead.vRel < -1
        THEN LET accel == -((lead.vRel * lead.vRel * 36 * Unit) \div (d * 10 * 1000))
             IN  IF accel < 0
                   THEN max(in.vEgo * Unit + accel, kph_to_clu(V_CRUISE_MIN) * Unit)
                   ELSE 0
        ELSE 0

\* update_max_speed that always filters, never snapping to the target
update_max_speed_no_snap(max_speed_clu, max_speed, in) ==
  max_speed_clu + rdiv(max_speed * Unit - max_speed_clu, LOW_PASS_DIV)

\* the smoothed set-speed after one tick
update_max_speed(max_speed_clu, max_speed, in) ==
  IF ~in.adaptiveCruise \/ max_speed_clu <= 0
    THEN max_speed * Unit
    ELSE max_speed_clu + rdiv(max_speed * Unit - max_speed_clu, LOW_PASS_DIV)

\* the set-speed before the road limit and the lead: the driver's, or the
\* curve's if that is lower
curve_limited(s, curve_speed_ms) ==
  IF SLOW_ON_CURVES /\ curve_speed_ms >= MIN_CURVE_SPEED
    THEN IF s.v_cruise_kph * Unit * 10 <= curve_speed_ms * 36
           THEN s.v_cruise_kph * Unit
           ELSE (curve_speed_ms * 36) \div 10
    ELSE kph_to_clu(s.v_cruise_kph) * Unit

\* lead_clamp that seeds the smoothed set-speed in every tick the lead binds
lead_clamp_every_tick(s, limit, lead_speed, vEgo) ==
  IF lead_speed >= kph_to_clu(V_CRUISE_MIN) * Unit
    THEN IF lead_speed < limit
           THEN [limit |-> lead_speed, max_speed_clu |-> (vEgo + LEAD_SEED_MS) * Unit,
                 limited_lead |-> TRUE, seed |-> TRUE]
           ELSE [limit |-> limit, max_speed_clu |-> s.max_speed_clu,
                 limited_lead |-> s.limited_lead, seed |-> FALSE]
    ELSE [limit |-> limit, max_speed_clu |-> s.max_speed_clu,
          limited_lead |-> FALSE, seed |-> FALSE]

\* the clamp by the lead's safe speed: the limit, the smoothed set-speed and
\* limited_lead it leaves, and whether it seeded the smoothed set-speed
lead_clamp(s, limit, lead_speed, vEgo) ==
  IF lead_speed >= kph_to_clu(V_CRUISE_MIN) * Unit
    THEN IF lead_speed < limit
           THEN [limit |-> lead_speed,
                 max_speed_clu |-> IF ~s.limited_lead THEN (vEgo + LEAD_SEED_MS) * Unit
                                   ELSE s.max_speed_clu,
                 limited_lead |-> TRUE,
                 seed |-> ~s.limited_lead]
           ELSE [limit |-> limit, max_speed_clu |-> s.max_speed_clu,
                 limited_lead |-> s.limited_lead, seed |-> FALSE]
    ELSE [limit |-> limit, max_speed_clu |-> s.max_speed_clu,
          limited_lead |-> FALSE, seed |-> FALSE]

\* the end of cal_max_speed: the fields it leaves, given the curve speed of
\* this tick and the outcome of the lead clamp
smooth(w, in, curve_speed_ms, slows, lead) ==
  LET s == w.self
      applies == in.road_limit.apply_limit_speed >= kph_to_clu(ROAD_LIMIT_MIN_KPH)
      max_speed == (lead.limit + Unit \div 2) \div Unit
  IN  [w EXCEPT
         !.self.curve_speed_ms = curve_speed_ms,
         !.self.slowing_down_sound_alert =
            IF slows /\ ~s.slowing_down_alert /\ ~s.slowing_down THEN TRUE ELSE @,
         !.self.slowing_down =
            IF ~applies THEN FALSE
            ELSE IF slows /\ ~s.slowing_down_alert THEN TRUE ELSE @,
         !.self.slowing_down_alert = slows,
         !.self.limited_lead = lead.limited_lead,
         !.self.max_speed_clu = update_max_speed(lead.max_speed_clu, max_speed, in),
         !.io.update_max_speed = max_speed,
         !.io.lead_seed = lead.seed,
         !.io.first_started_seed = applies /\ in.road_limit.first_started]

\* the road limit and the lead applied to the curve-limited set-speed
arbitrate(w, in, curve_speed_ms) ==
  LET s == w.self
      road == in.road_limit
      applies == road.apply_limit_speed >= kph_to_clu(ROAD_LIMIT_MIN_KPH)
      limit == IF applies
                 THEN min(curve_limited(s, curve_speed_ms), road.apply_limit_speed * Unit)
                 ELSE curve_limited(s, curve_speed_ms)
      seeded == IF applies /\ road.first_started
                  THEN [s EXCEPT !.max_speed_clu = s.v_cruise_kph * Unit]
                  ELSE s
      clamped == {lead_clamp(seeded, limit, get_long_lead_safe_speed(in), in.vEgo)}
  IN  CHOOSE r \in { smooth(w, in, curve_speed_ms,
                            applies /\ s.v_cruise_kph > road.apply_limit_speed,
                            lead) : lead \in clamped } : TRUE

cal_max_speed(w, in) ==
  CHOOSE r \in { arbitrate(w, in, curve_speed_ms) :
                   curve_speed_ms \in {cal_curve_speed(w.self.curve_speed_ms,
                                                       w.sm.frame, in)} } : TRUE

----------------------------------------------------------------------------
(* publish_logs                                                            *)

ldw_allowed(s, frame, in) ==
  LET recent_blinker == (frame - s.last_blinker_frame) < BLINKER_COOLDOWN_S * HZ
  IN  /\ s.is_ldw_enabled
      /\ in.vEgo * 100000 > LDW_MIN_SPEED
      /\ ~recent_blinker
      /\ ~s.active
      /\ in.calStatus = Calibration.CALIBRATED

\* the lane-departure branch reads self.wide_camera, which no code assigns:
\* entering it raises AttributeError
raises_AttributeError(s, frame, in) ==
  in.desirePrediction /\ ldw_allowed(s, frame, in)

\* sendcan goes out only from an initialized supervisor that may control the car
sends_sendcan(s) == ~s.read_only /\ s.initialized

sends_carEvents(s, frame) ==
  frame % HZ = 0 \/ s.events # s.events_prev

sends_carParams(frame) == frame % (CAR_PARAMS_PERIOD_S * HZ) = 0

\* cruise_cancel that leaves out the car's own cruise control
cruise_cancel_pcm_only(s, in) ==
  \/ in.cruiseEnabled /\ ~s.enabled
  \/ /\ s.joystick_mode
     /\ in.testJoystick.rcv_frame > 0
     /\ in.testJoystick.buttons[1]

\* CC.cruiseControl.cancel
cruise_cancel(s, in) ==
  \/ in.cruiseEnabled /\ (~s.enabled \/ ~s.pcmCruise)
  \/ /\ s.joystick_mode
     /\ in.testJoystick.rcv_frame > 0
     /\ in.testJoystick.buttons[1]

\* copy_CC that leaves the supervisor's CarControl as it was
copy_CC_never(s, CC) == s.CC

\* "copy CarControl to pass to CarInterface on the next iteration"
copy_CC(s, CC) == CC

publish_logs(w, in) ==
  LET s == w.self
      frame == w.sm.frame
      CC == [enabled |-> s.enabled, active |-> s.active,
             actuators |-> w.actuators,
             cruiseControl |-> [cancel |-> cruise_cancel(s, in)],
             leftLaneDepart |-> FALSE, rightLaneDepart |-> FALSE]
  IN  IF raises_AttributeError(s, frame, in)
        THEN [w EXCEPT !.ok = FALSE]
        ELSE [cal_max_speed(w, in) EXCEPT
                !.io.published =
                   (IF sends_sendcan(s) THEN <<"sendcan">> ELSE <<>>)
                   \o <<"controlsState", "carState">>
                   \o (IF sends_carEvents(s, frame) THEN <<"carEvents">> ELSE <<>>)
                   \o (IF sends_carParams(frame) THEN <<"carParams">> ELSE <<>>)
                   \o <<"carControl">>,
                !.self.events_prev = s.events,
                !.io.carControl = <<CC>>,
                !.self.CC = copy_CC(s, CC)]

----------------------------------------------------------------------------
(* update_button_timers                                                    *)

\* the timers after the first n button events
RECURSIVE set_timers(_, _, _)
set_timers(timers, buttonEvents, n) ==
  IF n = 0 THEN timers
  ELSE LET before == set_timers(timers, buttonEvents, n - 1)
           b == buttonEvents[n]
       IN  IF b.type \in DOMAIN timers
             THEN [before EXCEPT ![b.type] = IF b.pressed THEN 1 ELSE 0]
             ELSE before

update_button_timers(w, in) ==
  LET held == [k \in DOMAIN w.self.button_timers |->
                 IF w.self.button_timers[k] > 0 THEN w.self.button_timers[k] + 1
                 ELSE w.self.button_timers[k]]
  IN  [w EXCEPT !.self.button_timers =
                   set_timers(held, in.buttonEvents, Len(in.buttonEvents))]

----------------------------------------------------------------------------
(* step                                                                    *)

\* the gate without the initialized test
runs_state_transition_uninitialized(s) == ~s.read_only

\* "if not self.read_only and self.initialized": the gate of state_transition
runs_state_transition(s) == ~s.read_only /\ s.initialized

\* one tick: the phases in order, as a record of what they leave behind
tick(s, m, in) ==
  LET r0 == {[self |-> s, sm |-> m, io |-> [NoIo EXCEPT !.state_was = s.state],
              ok |-> TRUE, actuators |-> CarControl_new_message.actuators]}
      r1 == {data_sample(w, in) : w \in r0}
      r2 == {update_events(w, in) : w \in r1}
      r3 == {IF runs_state_transition(w.self) THEN state_transition(w, in) ELSE w :
               w \in r2}
      r4 == {state_control(w, in) : w \in r3}
      r5 == {publish_logs(w, in) : w \in r4}
      r6 == {IF w.ok THEN update_button_timers(w, in) ELSE w : w \in r5}
  IN  CHOOSE w \in r6 : TRUE

step(in) ==
  /\ running
  /\ \E w \in {tick(self, sm, in)} :
       /\ self' = w.self
       /\ sm' = w.sm
       /\ io' = w.io
       /\ running' = w.ok
       /\ CS' = in
       /\ soft_age' = IF w.self.state = State.softDisabling
                        THEN IF self.state = State.softDisabling
                               THEN soft_age + 1 ELSE 0
                        ELSE 0

----------------------------------------------------------------------------
(* Specifications.  Each draws the constructor's parameters and the ticks'  *)
(* inputs from its own sets.                                                *)

\* the event lists and the telemetry health a tick can see
Sampled(events, canValid, alive) ==
  { [Quiet EXCEPT !.events = e, !.canValid = c, !.all_alive_and_valid = a] :
      e \in events, c \in canValid, a \in alive }

\* Spec: a few ticks with every combination of car events, the bus and the
\* subscriptions good or bad, on a car that may or may not be controlled
Init == InitWith(Params(BOOLEAN, BOOLEAN, {FALSE}, {TRUE}, {FALSE}))
Inputs ==
  Sampled(SUBSET CarEvents, {TRUE}, {TRUE})
  \cup Sampled({{}, {"buttonEnable"}, {"buttonEnable", "buttonCancel"}}, BOOLEAN, BOOLEAN)
  \cup { [Quiet EXCEPT !.events = e, !.adaptiveCruise = FALSE, !.cruiseEnabled = TRUE] :
           e \in SUBSET {"buttonEnable", "belowEngageSpeed"} }
Next == \E in \in Inputs : sm.frame + 1 < MaxFrame /\ step(in)
Spec == Init /\ [][Next]_vars

\* SpecSoft: runs long enough for the soft-disable timer to run out, on a
\* controlled car without adaptive cruise; the driver engages or cancels, the
\* subscriptions come and go
InitSoft == InitWith(Params({TRUE}, {TRUE}, {FALSE}, {TRUE}, {FALSE}))
InputsSoft ==
  { [in EXCEPT !.adaptiveCruise = FALSE] :
      in \in Sampled({{"buttonEnable"}, {"buttonCancel"}}, {TRUE}, BOOLEAN) }
NextSoft == \E in \in InputsSoft : sm.frame + 1 < MaxFrameSoft /\ step(in)
SpecSoft == InitSoft /\ [][NextSoft]_vars

\* SpecInit: runs past the initialization timeout with nobody engaging
InitInit == InitWith(Params(BOOLEAN, {TRUE}, {FALSE}, {TRUE}, BOOLEAN))
InputsInit == Sampled({{}}, BOOLEAN, BOOLEAN)
NextInit == \E in \in InputsInit : sm.frame + 1 < MaxFrameInit /\ step(in)
SpecInit == InitInit /\ [][NextInit]_vars

\* SpecLdw: runs past the blinker cooldown, with and without desire predictions
\* from the model
InitLdw == InitWith(Params(BOOLEAN, {TRUE}, {FALSE}, BOOLEAN, {FALSE}))
InputsLdw == { [Quiet EXCEPT !.desirePrediction = d] : d \in BOOLEAN }
NextLdw == \E in \in InputsLdw : sm.frame + 1 < MaxFrameLdw /\ step(in)
SpecLdw == InitLdw /\ [][NextLdw]_vars

\* SpecAct: the controllers return finite and non-finite values, on a car that
\* is recognized or not
Floats == {Fin(1), NaN, Inf(1), Inf(-1)}
InputsAct ==
  { [Quiet EXCEPT !.events = e, !.accel = a, !.steer = st, !.steeringAngleDeg = d] :
      e \in {{}, {"buttonEnable"}, {"wrongGear"}}, a \in Floats, st \in Floats,
      d \in {Fin(1), NaN} }
InitAct == InitWith(Params(BOOLEAN, {TRUE}, {FALSE}, {TRUE}, {FALSE}))
NextAct == \E in \in InputsAct : sm.frame + 1 < MaxFrameAct /\ step(in)
SpecAct == InitAct /\ [][NextAct]_vars

\* SpecCancel: with and without joystick debug mode and pcmCruise; the stock
\* cruise control on or off, the driver engaging or cancelling, the joystick's
\* first button up or down
InitCancel ==
  InitWith(Configured(Params({TRUE}, BOOLEAN, {FALSE}, {TRUE}, {FALSE}),
                      BOOLEAN, BOOLEAN))
InputsCancel ==
  { [Quiet EXCEPT !.events = e, !.cruiseEnabled = c,
                  !.testJoystick = [rcv_frame |-> r, axes |-> <<2, -1>>,
                                    buttons |-> <<b>>]] :
      e \in {{}, {"buttonEnable"}, {"buttonCancel"}}, c \in BOOLEAN,
      r \in {0, 1}, b \in BOOLEAN }
NextCancel == \E in \in InputsCancel : sm.frame + 1 < MaxFrame /\ step(in)
SpecCancel == InitCancel /\ [][NextCancel]_vars

\* SpecCruise: the driver engages, cancels and works the cruise buttons, with
\* the car's own cruise control in charge or not
Button(type, pressed) == [type |-> type, pressed |-> pressed]
ButtonEvents ==
  {<<>>, <<Button("accelCruise", FALSE)>>, <<Button("decelCruise", FALSE)>>,
   <<Button("accelCruise", TRUE)>>}
InitCruise == InitWith(Params({TRUE}, {TRUE}, {FALSE}, {TRUE}, {FALSE}))
InputsCruise ==
  { [Quiet EXCEPT !.events = e, !.buttonEvents = b, !.regenPressed = r, !.vEgo = v] :
      e \in {{}, {"buttonEnable"}, {"buttonCancel"}}, b \in ButtonEvents,
      r \in BOOLEAN, v \in {1, 50} }
  \cup { [Quiet EXCEPT !.events = e, !.buttonEvents = b, !.adaptiveCruise = FALSE,
                       !.cruiseEnabled = c] :
           e \in {{}, {"buttonEnable"}, {"buttonCancel"}},
           b \in {<<>>, <<Button("gapAdjustCruise", FALSE)>>}, c \in BOOLEAN }
NextCruise == \E in \in InputsCruise : sm.frame + 1 < MaxFrame /\ step(in)
SpecCruise == InitCruise /\ [][NextCruise]_vars

\* SpecSpeed: a disengaged supervisor whose set-speed is arbitrated between a
\* curve, a road limit and a lead, with adaptive cruise on or off
Lead == [status |-> TRUE, dRel |-> 30, vRel |-> -3]
InitSpeed == InitWith(Params({TRUE}, {TRUE}, {FALSE}, {TRUE}, {FALSE}))
InputsSpeed ==
  { [Quiet EXCEPT !.vEgo = 32, !.v_curvature = k, !.leadOne = l, !.road_limit = r,
                  !.adaptiveCruise = a] :
      k \in {Fin(10 * Unit), Fin(100 * Unit)},
      l \in {Quiet.leadOne, Lead},
      r \in {Quiet.road_limit,
             [apply_limit_speed |-> 40, first_started |-> FALSE],
             [apply_limit_speed |-> 40, first_started |-> TRUE]},
      a \in BOOLEAN }
NextSpeed == \E in \in InputsSpeed : sm.frame + 1 < MaxFrameSpeed /\ step(in)
SpecSpeed == InitSpeed /\ [][NextSpeed]_vars

\* SpecCurve: a disengaged supervisor on a road whose predicted path bends
\* more or less, or is missing, at two speeds
InitCurve == InitWith(Params({TRUE}, {TRUE}, {FALSE}, {TRUE}, {FALSE}))
InputsCurve ==
  { [Quiet EXCEPT !.vEgo = v, !.v_curvature = k, !.position_valid = p] :
      v \in {5, 20},
      k \in {Fin(10 * Unit), Fin(15 * Unit), Fin(100 * Unit), NaN},
      p \in BOOLEAN }
NextCurve == \E in \in InputsCurve : sm.frame + 1 < MaxFrameCurve /\ step(in)
SpecCurve == InitCurve /\ [][NextCurve]_vars

\* SpecMismatch: a driver who keeps asking to engage, while the pandas agree
\* with the supervisor, refuse control, or run another safety model
InitMismatch == InitWith(Params({TRUE}, {TRUE}, {FALSE}, {TRUE}, {FALSE}))
InputsMismatch ==
  { [Quiet EXCEPT !.events = {"buttonEnable"}, !.pandaStates = ps] :
      ps \in {<<>>,
              <<PandaState(SafetyModel.car, 0, TRUE)>>,
              <<PandaState(SafetyModel.car, 0, FALSE)>>,
              <<PandaState(SafetyModel.car, 1, TRUE)>>,
              <<PandaState(SafetyModel.car, 0, TRUE),
                PandaState(SafetyModel.elm327, 0, TRUE)>>} }
NextMismatch == \E in \in InputsMismatch : sm.frame + 1 < MaxFrameMismatch /\ step(in)
SpecMismatch == InitMismatch /\ [][NextMismatch]_vars

\* SpecCruiseMismatch: a car without adaptive cruise, its own cruise control on
\* or off while the driver asks to engage or does nothing, in replay or not
InitCruiseMismatch ==
  InitWith(Environment(Params({TRUE}, {TRUE}, {FALSE}, {TRUE}, {FALSE}), BOOLEAN))
InputsCruiseMismatch ==
  { [Quiet EXCEPT !.adaptiveCruise = FALSE, !.cruiseEnabled = c, !.events = e] :
      c \in BOOLEAN, e \in {{}, {"buttonEnable"}} }
NextCruiseMismatch ==
  \E in \in InputsCruiseMismatch : sm.frame + 1 < MaxFrameCruiseMismatch /\ step(in)
SpecCruiseMismatch == InitCruiseMismatch /\ [][NextCruiseMismatch]_vars

\* SpecAdvisory: a road limit that comes, changes and goes while the driver
\* engages or does nothing
InitAdvisory == InitWith(Params({TRUE}, {TRUE}, {FALSE}, {TRUE}, {FALSE}))
InputsAdvisory ==
  { [Quiet EXCEPT !.vEgo = 32, !.events = e,
                  !.road_limit = [apply_limit_speed |-> l, first_started |-> FALSE]] :
      e \in {{}, {"buttonEnable"}}, l \in {0, 40, 120} }
NextAdvisory == \E in \in InputsAdvisory : sm.frame + 1 < MaxFrameAdvisory /\ step(in)
SpecAdvisory == InitAdvisory /\ [][NextAdvisory]_vars

\* SpecCan: a few ticks in which the drain of the bus comes back with or
\* without frames, with the bus and the telemetry valid or not
InitCan == InitWith(Params({TRUE}, {TRUE}, {FALSE}, {FALSE}, {FALSE}))
InputsCan ==
  { [w EXCEPT !.can_strs = c] :
      w \in Sampled({{}, {"buttonEnable"}}, BOOLEAN, BOOLEAN), c \in BOOLEAN }
NextCan == \E in \in InputsCan : sm.frame + 1 < MaxFrameCan /\ step(in)
SpecCan == InitCan /\ [][NextCan]_vars

\* SpecSteer: cars with angle and with torque steering, in joystick debug mode
\* (no joystick message ever arrives) or not, for longer than the saturation
\* timeout.  A tick engages with the wheel where it is commanded, or leaves
\* the engagement alone with the measured angle away from the commanded one or
\* the lateral controller reporting saturation, the driver holding the wheel or
\* not, and the planner's path absent or 0.2 m to the right
InitSteer ==
  InitWith(Steered(Configured(Params({TRUE}, {TRUE}, {FALSE}, {FALSE}, {FALSE}),
                              BOOLEAN, {TRUE}),
                   {"angle", "torque"}))
Steering(angle, pressed, saturated, dPathPoints) ==
  [Quiet EXCEPT !.adaptiveCruise = FALSE, !.CS_steeringAngleDeg = angle,
                !.steeringPressed = pressed, !.lac_saturated = saturated,
                !.dPathPoints = dPathPoints]
InputsSteer ==
  { [Quiet EXCEPT !.adaptiveCruise = FALSE, !.events = {"buttonEnable"}],
    Steering(10, FALSE, FALSE, <<-200>>),
    Steering(10, FALSE, FALSE, <<>>),
    Steering(10, TRUE, FALSE, <<-200>>),
    Steering(1, FALSE, TRUE, <<-200>>),
    Steering(1, TRUE, TRUE, <<-200>>) }
NextSteer == \E in \in InputsSteer : sm.frame + 1 < MaxFrameSteer /\ step(in)
SpecSteer == InitSteer /\ [][NextSteer]_vars

----------------------------------------------------------------------------
(* The claims.                                                             *)

Engaged == {State.preEnabled, State.enabled, State.softDisabling}
Active == {State.enabled, State.softDisabling}

\* the tick that led to the primed state ran state_transition
Ran == io'.ran_state_transition

\* C1: at the end of every tick, whether or not state_transition ran in it,
\* enabled holds iff the state is preEnabled, enabled or softDisabling and
\* active holds iff the state is enabled or softDisabling; before the first
\* tick the state is disabled and both flags are false.
C1_FlagsFollowState ==
  /\ self.enabled <=> self.state \in Engaged
  /\ self.active <=> self.state \in Active
  /\ sm.frame = -1 => self.state = State.disabled /\ ~self.enabled /\ ~self.active

C1_Witness ==
  /\ self.state = State.preEnabled
  /\ io.ran_state_transition
  /\ self.enabled
  /\ ~self.active

\* C2: a tick that runs state_transition from a non-disabled state with a
\* USER_DISABLE or an IMMEDIATE_DISABLE event in its event set ends disabled,
\* whatever else is in the set and whatever the timer holds; the alert type
\* attached is USER_DISABLE whenever a USER_DISABLE event is present.
C2_DisablePriority ==
  [][ (/\ self.state \in Engaged
       /\ Ran
       /\ any(self'.events, ET.USER_DISABLE) \/ any(self'.events, ET.IMMEDIATE_DISABLE))
      => /\ self'.state = State.disabled
         /\ self'.current_alert_types =
              IF any(self'.events, ET.USER_DISABLE)
                THEN <<ET.PERMANENT, ET.USER_DISABLE>>
                ELSE <<ET.PERMANENT, ET.IMMEDIATE_DISABLE>> ]_vars

C2_Witness ==
  /\ self.state = State.disabled
  /\ io.state_was = State.softDisabling
  /\ io.ran_state_transition
  /\ any(self.events, ET.USER_DISABLE)
  /\ any(self.events, ET.IMMEDIATE_DISABLE)
  /\ any(self.events, ET.SOFT_DISABLE)
  /\ any(self.events, ET.ENABLE)
  /\ self.current_alert_types = <<ET.PERMANENT, ET.USER_DISABLE>>

\* a tick that ran state_transition with a SOFT_DISABLE event and neither a
\* USER_DISABLE nor an IMMEDIATE_DISABLE event in its set
SoftOnly(events) ==
  /\ any(events, ET.SOFT_DISABLE)
  /\ ~any(events, ET.USER_DISABLE)
  /\ ~any(events, ET.IMMEDIATE_DISABLE)

\* C3: with softDisabling entered in tick T and every later tick carrying a
\* SOFT_DISABLE event and no USER_DISABLE or IMMEDIATE_DISABLE event, the
\* state is softDisabling at the end of ticks T .. T+299 and disabled at the
\* end of tick T+300.  soft_age is k at the end of tick T+k.
C3_SoftDisableTimeout ==
  [][ (self.state = State.softDisabling /\ Ran /\ SoftOnly(self'.events))
      => self'.state = IF soft_age + 1 < 300 THEN State.softDisabling
                       ELSE State.disabled ]_vars

\* the tick in which the timer ran out
C3_Witness ==
  /\ self.state = State.disabled
  /\ io.state_was = State.softDisabling
  /\ io.ran_state_transition
  /\ SoftOnly(self.events)
  /\ any(self.events, ET.ENABLE)
  /\ self.current_alert_types = <<ET.PERMANENT>>
  /\ self.soft_disable_timer = 0

\* C4 as stated: a tick that starts in softDisabling with no SOFT_DISABLE event
\* in its set ends enabled, whatever the timer and the other events.
C4_AnyOtherEvents ==
  [][ (self.state = State.softDisabling /\ Ran /\ ~any(self'.events, ET.SOFT_DISABLE))
      => self'.state = State.enabled ]_vars

\* C4, amended: a tick that starts in softDisabling with no SOFT_DISABLE, no
\* USER_DISABLE and no IMMEDIATE_DISABLE event in its set ends enabled,
\* whatever the timer (0 included) and the other events.
C4_SoftDisableRecovery ==
  [][ (/\ self.state = State.softDisabling
       /\ Ran
       /\ ~any(self'.events, ET.SOFT_DISABLE)
       /\ ~any(self'.events, ET.USER_DISABLE)
       /\ ~any(self'.events, ET.IMMEDIATE_DISABLE))
      => self'.state = State.enabled ]_vars

\* recovery in the tick in which the timer reaches 0
C4_Witness ==
  /\ self.state = State.enabled
  /\ io.state_was = State.softDisabling
  /\ io.ran_state_transition
  /\ ~any(self.events, ET.SOFT_DISABLE)
  /\ self.soft_disable_timer = 0

\* C5: a tick that runs state_transition from disabled ends non-disabled iff
\* its event set has an ENABLE and no NO_ENTRY event; with both present the
\* state stays disabled, NO_ENTRY is attached and the set-speed is what the
\* set-speed update left, not what initialize_v_cruise returns.
C5_EngagementGate ==
  [][ (self.state = State.disabled /\ Ran)
      => /\ self'.state # State.disabled
              <=> any(self'.events, ET.ENABLE) /\ ~any(self'.events, ET.NO_ENTRY)
         /\ (any(self'.events, ET.ENABLE) /\ any(self'.events, ET.NO_ENTRY))
              => /\ self'.state = State.disabled
                 /\ self'.current_alert_types = <<ET.PERMANENT, ET.NO_ENTRY>>
                 /\ self'.v_cruise_kph = cruise_update(self, CS') ]_vars

C5_Witness ==
  /\ self.state = State.disabled
  /\ io.state_was = State.disabled
  /\ io.ran_state_transition
  /\ any(self.events, ET.ENABLE)
  /\ any(self.events, ET.NO_ENTRY)
  /\ self.current_alert_types = <<ET.PERMANENT, ET.NO_ENTRY>>
  /\ self.v_cruise_kph = V_CRUISE_INIT

\* C6: an engagement from disabled lands in preEnabled iff the tick has a
\* PRE_ENABLE event and in enabled otherwise; from preEnabled, with no
\* USER_DISABLE or IMMEDIATE_DISABLE event, the tick stays in preEnabled if it
\* has a PRE_ENABLE event and moves to enabled if it has none; preEnabled is
\* never followed by softDisabling.
C6_PreEnablePath ==
  [][ /\ (self.state = State.disabled /\ Ran /\ self'.state # State.disabled)
         => self'.state = IF any(self'.events, ET.PRE_ENABLE)
                            THEN State.preEnabled ELSE State.enabled
      /\ (/\ self.state = State.preEnabled
          /\ Ran
          /\ ~any(self'.events, ET.USER_DISABLE)
          /\ ~any(self'.events, ET.IMMEDIATE_DISABLE))
         => self'.state = IF any(self'.events, ET.PRE_ENABLE)
                            THEN State.preEnabled ELSE State.enabled
      /\ self.state = State.preEnabled => self'.state # State.softDisabling ]_vars

\* preEnabled left for enabled in a tick that carries a SOFT_DISABLE event
C6_Witness ==
  /\ self.state = State.enabled
  /\ io.state_was = State.preEnabled
  /\ io.ran_state_transition
  /\ any(self.events, ET.SOFT_DISABLE)
  /\ ~any(self.events, ET.PRE_ENABLE)

\* C7: every tick that ends uninitialized has controlsInitializing in its
\* event set, has not run state_transition, and leaves state, enabled, active,
\* soft_disable_timer, v_cruise_kph and current_alert_types at their initial
\* values, whatever ENABLE events arrive.
C7_InitializationGate ==
  (sm.frame >= 0 /\ ~self.initialized)
  => /\ "controlsInitializing" \in self.events
     /\ ~io.ran_state_transition
     /\ self.state = State.disabled
     /\ ~self.enabled
     /\ ~self.active
     /\ self.soft_disable_timer = 0
     /\ self.v_cruise_kph = V_CRUISE_INIT
     /\ self.current_alert_types = <<ET.PERMANENT>>

C7_Witness ==
  /\ sm.frame >= 1
  /\ ~self.initialized
  /\ ~self.read_only
  /\ any(self.events, ET.ENABLE)
  /\ self.events \cap {"belowEngageSpeed", "wrongGear"} = {}

\* the initialization of C8 but for the deadline: an uninitialized supervisor
\* initializes in exactly the ticks whose Sample phase sees canValid and all
\* subscriptions alive and valid, or a frame later than `after`, or the
\* simulation flag; once initialized it stays so; ControlsReady is written and
\* CI.init called only in the tick that initializes
Initializes(after) ==
  /\ ~self.initialized
       => (self'.initialized
             <=> \/ CS'.canValid /\ CS'.all_alive_and_valid
                 \/ sm'.frame > after
                 \/ self.SIMULATION)
  /\ self.initialized => self'.initialized
  /\ io'.put_ControlsReady => ~self.initialized /\ self'.initialized
  /\ io'.CI_init => ~self.initialized /\ self'.initialized

\* C8 as stated: ... and whatever the telemetry, the supervisor is initialized
\* by t = 3.5 s, the tick whose frame is 350.
C8_By350 ==
  [][ Initializes(349) /\ (sm'.frame >= 350 => self'.initialized) ]_vars

\* C8, amended: ... and whatever the telemetry, the supervisor is initialized
\* in the first tick whose elapsed time exceeds 3.5 s, the tick whose frame is
\* 351 (t = 3.51 s), and not in the tick at 3.5 s.
C8_Initialization ==
  [][ Initializes(350) /\ (sm'.frame >= 351 => self'.initialized) ]_vars

\* initialized by the timeout alone
C8_Witness ==
  /\ sm.frame = 351
  /\ self.initialized
  /\ io.put_ControlsReady
  /\ io.CI_init
  /\ ~(CS.canValid /\ CS.all_alive_and_valid)

Published(topic) == \E i \in DOMAIN io.published : io.published[i] = topic

\* C9: with read_only set, every tick leaves the state disabled with enabled
\* and active false, does not run state_transition, publishes no sendcan and
\* publishes controlsState, carState and carControl.
C9_ReadOnly ==
  (self.read_only /\ sm.frame >= 0)
  => /\ self.state = State.disabled
     /\ ~self.enabled
     /\ ~self.active
     /\ ~io.ran_state_transition
     /\ ~Published("sendcan")
     /\ Published("controlsState")
     /\ Published("carState")
     /\ Published("carControl")

NumericFields == {p \in ACTUATOR_FIELDS : Number(Quiet[p])}

\* C10: in every tick that publishes CarControl, every numeric actuator field
\* published is finite: it is the controllers' value if that is finite and 0
\* if it is NaN or infinite; and the tick ends in the state, with the flags,
\* the timer and the set-speed it would have ended in had the controllers
\* returned finite values.
C10_FinitenessGuard ==
  [][ running'
      => /\ \A p \in NumericFields :
              /\ isfinite(self'.CC.actuators[p])
              /\ self'.CC.actuators[p] = IF isfinite(CS'[p]) THEN CS'[p] ELSE Fin(0)
         /\ LET finite == tick(self, sm, [CS' EXCEPT !.accel = Fin(1), !.steer = Fin(1),
                                                      !.steeringAngleDeg = Fin(1)]).self
            IN  /\ self'.state = finite.state
                /\ self'.enabled = finite.enabled
                /\ self'.active = finite.active
                /\ self'.soft_disable_timer = finite.soft_disable_timer
                /\ self'.v_cruise_kph = finite.v_cruise_kph ]_vars

C10_Witness ==
  /\ self.state = State.enabled
  /\ io.state_was = State.enabled
  /\ Published("carControl")
  /\ CS.steer = NaN
  /\ CS.accel = Inf(-1)
  /\ self.CC.actuators.steer = Fin(0)
  /\ self.CC.actuators.accel = Fin(0)
  /\ self.CC.actuators.steeringAngleDeg = Fin(1)

\* the joystick's cancel button, seen by a supervisor in joystick debug mode
JoystickCancel ==
  /\ self.joystick_mode
  /\ CS.testJoystick.rcv_frame > 0
  /\ CS.testJoystick.buttons[1]

\* C11 as stated: in every tick and every configuration, joystick debug mode
\* included, the published cruiseControl.cancel is true iff the car's cruise
\* control is on and the supervisor is not enabled or CP.pcmCruise is false.
C11_CancelIff ==
  Published("carControl")
  => (self.CC.cruiseControl.cancel
        <=> CS.cruiseEnabled /\ (~self.enabled \/ ~self.pcmCruise))

\* C11, amended: the published cruiseControl.cancel is true iff the car's
\* cruise control is on and the supervisor is not enabled or CP.pcmCruise is
\* false, or the supervisor is in joystick debug mode, a testJoystick message
\* has arrived and the joystick's first button is down.
C11_Cancel ==
  Published("carControl")
  => (self.CC.cruiseControl.cancel
        <=> \/ CS.cruiseEnabled /\ (~self.enabled \/ ~self.pcmCruise)
            \/ JoystickCancel)

\* an enabled supervisor cancels the cruise control of a car without pcmCruise
C11_Witness ==
  /\ Published("carControl")
  /\ self.enabled
  /\ ~self.pcmCruise
  /\ CS.cruiseEnabled
  /\ ~JoystickCancel
  /\ self.CC.cruiseControl.cancel

\* carEvents is due in the tick that leads to the primed state: the event names
\* at publish time differ from events_prev, or the frame is a multiple of 100
CarEventsDue == self'.events # self.events_prev \/ sm'.frame % HZ = 0

CarEventsSent == \E i \in DOMAIN io'.published : io'.published[i] = "carEvents"

\* C12: carEvents is published in every tick in which the event names differ
\* from events_prev and in every tick whose frame is a multiple of 100, and in
\* no other tick; events_prev is updated in every tick.
C12_CarEvents ==
  [][ /\ CarEventsDue <=> CarEventsSent
      /\ self'.events_prev = self'.events ]_vars

\* C12 in the ticks that step() completes
C12_WhileRunning ==
  [][ running' => /\ CarEventsDue <=> CarEventsSent
                  /\ self'.events_prev = self'.events ]_vars

InRange(v_cruise_kph) == V_CRUISE_MIN <= v_cruise_kph /\ v_cruise_kph <= V_CRUISE_MAX

\* the tick that led to the primed state engaged the supervisor
Engages == Ran /\ self.state = State.disabled /\ self'.state # State.disabled

\* the tick that led to the primed state took the stock-cruise branch
StockCruise == Ran /\ ~CS'.adaptiveCruise /\ CS'.cruiseEnabled

\* the tick that led to the primed state applied a released cruise button or
\* the regen paddle to the set-speed of an enabled supervisor
SetSpeedInput ==
  /\ Ran
  /\ CS'.adaptiveCruise
  /\ self.enabled
  /\ \/ CS'.regenPressed
     \/ /\ CS'.buttonEvents # <<>>
        /\ ~CS'.buttonEvents[1].pressed

Target == io'.update_max_speed * Unit
Before == Target - self.max_speed_clu
After == Target - self'.max_speed_clu

\* the distance shrinks by 0.99, to the nearest 1/Unit, without changing side
Filtered ==
  /\ 100 * After - 99 * Before <= LOW_PASS_DIV
  /\ 99 * Before - 100 * After <= LOW_PASS_DIV
  /\ Before >= 0 => After >= 0
  /\ Before <= 0 => After <= 0

\* a seed of the smoothed set-speed in the tick that led to the primed state
Seeded == io'.lead_seed \/ io'.first_started_seed

\* C14, as stated: in a tick with adaptiveCruise whose target is that of the
\* tick before, the distance of max_speed_clu to the target shrinks by the
\* factor 0.99 without crossing it; with adaptiveCruise false or max_speed_clu
\* <= 0 the tick sets max_speed_clu to the target.
C14_Converges ==
  [][ /\ (/\ CS'.adaptiveCruise
          /\ self.max_speed_clu > 0
          /\ io'.update_max_speed = io.update_max_speed)
         => Filtered
      /\ (~CS'.adaptiveCruise \/ self.max_speed_clu <= 0)
         => self'.max_speed_clu = Target ]_vars

\* C14, amended: the same, for the ticks in which neither the lead clamp's
\* rising edge nor a first-started road limit seeds max_speed_clu; a tick
\* with adaptiveCruise false sets max_speed_clu to the target, seed or not.
C14_LowPass ==
  [][ /\ (/\ CS'.adaptiveCruise
          /\ self.max_speed_clu > 0
          /\ io'.update_max_speed = io.update_max_speed
          /\ ~Seeded)
         => Filtered
      /\ (~CS'.adaptiveCruise \/ (self.max_speed_clu <= 0 /\ ~Seeded))
         => self'.max_speed_clu = Target ]_vars

\* two ticks of the filter toward a road limit of 40, from the seed of 255
C14_Witness ==
  /\ CS.adaptiveCruise
  /\ ~io.lead_seed /\ ~io.first_started_seed
  /\ io.update_max_speed = 40
  /\ self.max_speed_clu =
       update_max_speed(update_max_speed(V_CRUISE_INIT * Unit, 40, CS), 40, CS)
  /\ self.max_speed_clu > 40 * Unit

\* C15: the loop never ends on its own: whatever the supervisor's state and
\* the inputs, lane-departure ticks with desire predictions included, step()
\* completes and the next tick begins.
C15_NeverTerminates == running

\* C16: curve_speed_ms changes only in ticks whose frame is a multiple of 20,
\* and a tick that recomputes it leaves 255 or a speed of at least
\* MIN_CURVE_SPEED.
C16_Every20 ==
  [][ /\ sm'.frame % 20 # 0 => self'.curve_speed_ms = self.curve_speed_ms
      /\ sm'.frame % 20 = 0 => \/ self'.curve_speed_ms = NO_CURVE_LIMIT * Unit
                               \/ self'.curve_speed_ms >= MIN_CURVE_SPEED ]_vars

\* C16 with the cadence, the factor and the floor of the definition in force
C16_Every10 ==
  [][ /\ sm'.frame % CURVE_SPEED_PERIOD # 0 => self'.curve_speed_ms = self.curve_speed_ms
      /\ sm'.frame % CURVE_SPEED_PERIOD = 0
         => \/ self'.curve_speed_ms = NO_CURVE_LIMIT * Unit
            \/ /\ CS'.position_valid /\ isfinite(CS'.v_curvature)
               /\ self'.curve_speed_ms < CS'.vEgo * Unit
               /\ self'.curve_speed_ms =
                    max((CS'.v_curvature.v * CURVE_FACTOR_PCT) \div 100,
                        rdiv(CURVE_FLOOR_KPH * Unit * 10, 36)) ]_vars

\* the tick that led to the primed state is the first in which the lead binds
RisingEdge == ~self.limited_lead /\ self'.limited_lead

\* vEgo + 3, the seed of the rising edge
LeadSeed == (CS'.vEgo + LEAD_SEED_MS) * Unit

\* C17, as stated: the tick in which limited_lead goes from false to true ends
\* with max_speed_clu equal to vEgo + 3, and a tick that starts and ends with
\* limited_lead true does not seed max_speed_clu again.
C17_SnapsToSeed ==
  [][ /\ RisingEdge => self'.max_speed_clu = LeadSeed
      /\ (self.limited_lead /\ self'.limited_lead /\ ~io'.first_started_seed)
         => self'.max_speed_clu =
              self.max_speed_clu + rdiv(Target - self.max_speed_clu, LOW_PASS_DIV) ]_vars

\* C17, amended: the tick in which limited_lead goes from false to true ends
\* with max_speed_clu one filter step from vEgo + 3 toward the target, and a
\* tick that starts and ends with limited_lead true filters on from the value
\* it found, unless a first-started road limit seeds it.
C17_FiltersFromSeed ==
  [][ /\ RisingEdge
         => self'.max_speed_clu = LeadSeed + rdiv(Target - LeadSeed, LOW_PASS_DIV)
      /\ (self.limited_lead /\ self'.limited_lead /\ ~io'.first_started_seed)
         => self'.max_speed_clu =
              self.max_speed_clu + rdiv(Target - self.max_speed_clu, LOW_PASS_DIV) ]_vars

\* the lead still binds in the tick after the rising edge, which does not seed
C17_Witness ==
  /\ self.limited_lead
  /\ ~io.lead_seed /\ ~io.first_started_seed
  /\ io.update_max_speed = 32
  /\ self.max_speed_clu > 32 * Unit
  /\ self.max_speed_clu < (32 + LEAD_SEED_MS) * Unit - (LEAD_SEED_MS * Unit) \div LOW_PASS_DIV

\* the tick that led to the primed state ran state_transition from disabled
\* with an ENABLE event and neither a NO_ENTRY nor a PRE_ENABLE event
EnableArrives ==
  /\ Ran
  /\ self.state = State.disabled
  /\ any(self'.events, ET.ENABLE)
  /\ ~any(self'.events, ET.NO_ENTRY)
  /\ ~any(self'.events, ET.PRE_ENABLE)

\* C18, as stated: the tick of the first engagement, the set-speed still the
\* constructor's, ends enabled with v_cruise_kph equal to
\* initialize_v_cruise(vEgo, buttonEvents, 0): the last set-speed it passes,
\* v_cruise_kph_last, is 0.
C18_LastSetSpeedZero ==
  [][ (EnableArrives /\ self.v_cruise_kph = V_CRUISE_INIT)
      => /\ self'.state = State.enabled
         /\ self'.v_cruise_kph_last = 0
         /\ self'.v_cruise_kph =
              initialize_v_cruise(CS'.vEgo, CS'.buttonEvents, 0) ]_vars

\* C18, amended: a tick that engages ends enabled with v_cruise_kph equal to
\* initialize_v_cruise(vEgo, buttonEvents, v_cruise_kph_last), and the
\* v_cruise_kph_last it passes is the v_cruise_kph the tick found: 255 on the
\* first engagement.
C18_LastSetSpeed ==
  [][ EnableArrives
      => /\ self'.state = State.enabled
         /\ self'.v_cruise_kph_last = self.v_cruise_kph
         /\ self'.v_cruise_kph =
              initialize_v_cruise(CS'.vEgo, CS'.buttonEvents, self'.v_cruise_kph_last) ]_vars

\* the first engagement, made with the accel button
C18_Witness ==
  /\ io.ran_state_transition
  /\ io.state_was = State.disabled
  /\ self.state = State.enabled
  /\ self.v_cruise_kph_last = V_CRUISE_INIT
  /\ \E i \in DOMAIN CS.buttonEvents : CS.buttonEvents[i].type = "accelCruise"
  /\ self.v_cruise_kph = initialize_v_cruise(CS.vEgo, CS.buttonEvents, V_CRUISE_INIT)

\* C19: soft_disable_timer stays within 0..300; a tick that runs
\* state_transition leaves it at 300 if the state moved from enabled to
\* softDisabling and at max(0, previous - 1) otherwise; a tick that does not
\* run state_transition leaves it unchanged.
C19_SoftDisableTimer ==
  [][ /\ 0 <= self.soft_disable_timer /\ self.soft_disable_timer <= SOFT_DISABLE_TICKS
      /\ 0 <= self'.soft_disable_timer /\ self'.soft_disable_timer <= SOFT_DISABLE_TICKS
      /\ Ran => self'.soft_disable_timer =
                  IF self.state = State.enabled /\ self'.state = State.softDisabling
                    THEN SOFT_DISABLE_TICKS
                    ELSE max(0, self.soft_disable_timer - 1)
      /\ ~Ran => self'.soft_disable_timer = self.soft_disable_timer ]_vars

\* the timer, set on entering softDisabling, has counted down twice, the
\* second time in a tick that disengaged
C19_Witness ==
  /\ io.ran_state_transition
  /\ io.state_was = State.softDisabling
  /\ self.state = State.disabled
  /\ self.soft_disable_timer = SOFT_DISABLE_TICKS - 2

\* no panda of the last tick deviates from the configured safetyConfigs
NoDeviation ==
  \A i \in DOMAIN CS.pandaStates : ~safety_mismatch(self, i, CS.pandaStates[i])

\* the last tick was an initialized one with at least one panda state
PandasChecked == sm.frame >= 0 /\ self.initialized /\ CS.pandaStates # <<>>

\* C20, as stated: in an initialized tick with at least one panda state,
\* controlsMismatch is raised iff mismatch_counter is greater than 200 when no
\* panda deviates, and always when one deviates.
C20_Over200 ==
  PandasChecked
  => IF NoDeviation
       THEN "controlsMismatch" \in self.events <=> self.mismatch_counter > 200
       ELSE "controlsMismatch" \in self.events

\* C20, amended: the same with the event raised from a count of 200 on.
C20_From200 ==
  PandasChecked
  => IF NoDeviation
       THEN "controlsMismatch" \in self.events <=> self.mismatch_counter >= 200
       ELSE "controlsMismatch" \in self.events

\* the 200th tick in a row in which a panda refuses control raises the event
C20_Witness ==
  /\ PandasChecked
  /\ NoDeviation
  /\ self.mismatch_counter = 200
  /\ "controlsMismatch" \in self.events
  /\ io.state_was = State.enabled
  /\ self.state = State.disabled

\* the mismatch between the car's cruise control and the supervisor, as the
\* tick that led to the primed state saw it
CruiseMismatch == CS'.cruiseEnabled /\ (~self.enabled \/ ~self.pcmCruise)

\* C21: outside replay, an initialized tick raises cruiseMismatch iff the
\* mismatch has held in more than 300 initialized ticks in a row, this one
\* included: the counter of those ticks goes up by one with the mismatch and
\* back to 0 without it, and the event is raised iff it is above 300.
C21_CruiseMismatch ==
  [][ (self'.initialized /\ ~self.REPLAY)
      => /\ self'.cruise_mismatch_counter =
              IF CruiseMismatch THEN self.cruise_mismatch_counter + 1 ELSE 0
         /\ "cruiseMismatch" \in self'.events <=> self'.cruise_mismatch_counter > 300 ]_vars

\* the 301st tick in a row with the car's cruise control on and the
\* supervisor disengaged
C21_Witness ==
  /\ self.initialized /\ ~self.REPLAY
  /\ self.cruise_mismatch_counter = 301
  /\ CS.cruiseEnabled /\ io.state_was = State.disabled
  /\ "cruiseMismatch" \in self.events

\* the Publish phase of the tick that led to the primed state works out the
\* lane-departure flags: the model supplies desire predictions and the warning
\* is allowed
DepartureEvaluated == CS'.desirePrediction /\ ldw_allowed(self', sm'.frame, CS')

\* C22: a tick whose Publish phase works out the lane-departure flags hands the
\* ldw event to the alert pipeline of the next tick: the tick completes, the
\* next one begins, and ldw is not among the events of its own alerts.
C22_LdwNextTick ==
  [][ DepartureEvaluated => (running' /\ "ldw" \notin self'.events) ]_vars

\* the road limit of the tick that led to the primed state applies and the
\* driver's set-speed is above it
Clamps ==
  /\ CS'.road_limit.apply_limit_speed >= kph_to_clu(ROAD_LIMIT_MIN_KPH)
  /\ self'.v_cruise_kph > CS'.road_limit.apply_limit_speed

\* C23, as stated: every entry into the road-limit regime is followed by the
\* one tick with slowingDownSpeedSound, and an initialized tick raises
\* slowingDownSpeed iff it finds slowing_down_alert true.
C23_Advisory ==
  [][ /\ (running' /\ Clamps /\ ~self.slowing_down_alert)
         => self'.slowing_down_sound_alert
      /\ self'.initialized
         => /\ "slowingDownSpeedSound" \in self'.events
               => "slowingDownSpeedSound" \notin self.events
            /\ "slowingDownSpeed" \in self'.events <=> self.slowing_down_alert ]_vars

\* C23, amended: the sound is armed by the first clamping tick since the road
\* limit was last below 30 (slowing_down still false), an initialized tick
\* raises slowingDownSpeedSound iff it finds the sound armed, never in two
\* ticks in a row, and raises slowingDownSpeed iff it finds slowing_down_alert
\* true and the sound not armed.
C23_AdvisoryOnce ==
  [][ /\ running'
         => /\ self'.slowing_down_alert <=> Clamps
            /\ (Clamps /\ ~self.slowing_down_alert /\ ~self.slowing_down)
               => self'.slowing_down_sound_alert
            /\ (self'.slowing_down_sound_alert /\ ~self.slowing_down_sound_alert)
               => (Clamps /\ ~self.slowing_down_alert /\ ~self.slowing_down)
      /\ self'.initialized
         => /\ "slowingDownSpeedSound" \in self'.events <=> self.slowing_down_sound_alert
            /\ "slowingDownSpeedSound" \in self'.events
               => "slowingDownSpeedSound" \notin self.events
            /\ "slowingDownSpeed" \in self'.events
               <=> (self.slowing_down_alert /\ ~self.slowing_down_sound_alert) ]_vars

\* the limit clamps again after a spell in which the set-speed was below it:
\* the plain advisory is up, and the sound was not repeated
C23_Witness ==
  /\ "slowingDownSpeed" \in self.events
  /\ self.slowing_down_alert /\ self.slowing_down /\ ~self.slowing_down_sound_alert
  /\ self.state = State.enabled
  /\ CS.road_limit.apply_limit_speed = 40

\* update_events run on supervisor s with the inputs in, and the event set it
\* leaves
Collect(s, in) ==
  update_events([self |-> s, sm |-> sm, io |-> io, ok |-> TRUE,
                 actuators |-> CarControl_new_message.actuators], in).self
Collected(s, in) == Collect(s, in).events

\* supervisors that differ from s in what the engagement machine, the alerts
\* and the previous event set left behind
Unrelated(s) ==
  { [s EXCEPT !.events = e, !.events_prev = e, !.state = st,
              !.soft_disable_timer = t, !.slowing_down = sd] :
      e \in {{}, {"buttonCancel", "canError"}},
      st \in {State.disabled, State.softDisabling},
      t \in {0, SOFT_DISABLE_TICKS}, sd \in BOOLEAN }

\* a supervisor with the counters of s that has used up its startup event
StartedUp(s) == [s EXCEPT !.startup_event = None]

Settled(s, in) ==
  /\ Collect(s, in).startup_event = s.startup_event
  /\ Collect(s, in).slowing_down_sound_alert = s.slowing_down_sound_alert
  /\ \/ Collect(s, in).cruise_mismatch_counter = s.cruise_mismatch_counter
     \/ Collect(s, in).cruise_mismatch_counter # CRUISE_MISMATCH_S * HZ

Publications(carEvents) ==
  (IF ~self.read_only /\ self.initialized THEN <<"sendcan">> ELSE <<>>)
  \o <<"controlsState", "carState">>
  \o (IF carEvents THEN <<"carEvents">> ELSE <<>>)
  \o (IF sm.frame % (CAR_PARAMS_PERIOD_S * HZ) = 0 THEN <<"carParams">> ELSE <<>>)
  \o <<"carControl">>

\* C25: every tick publishes sendcan iff the supervisor is initialized and not
\* read-only, publishes controlsState, carState and carControl once each, in
\* the order sendcan, controlsState, carState, (carEvents), (carParams),
\* carControl, and publishes carParams exactly when the frame is a multiple of
\* 5000.
C25_Publications ==
  sm.frame >= 0 => io.published \in {Publications(TRUE), Publications(FALSE)}

\* C25 in the ticks that step() completes
C25_WhileRunning ==
  (sm.frame >= 0 /\ running)
  => io.published \in {Publications(TRUE), Publications(FALSE)}

\* C26: after the Sample phase of every tick can_rcv_error holds iff the tick's
\* drain of the bus came back empty; can_error_counter goes up by exactly 1 in
\* those ticks and is unchanged in the others; in every initialized tick
\* canError is among the events iff can_rcv_error holds or CS.canValid does not.
C26_CanError ==
  [][ /\ self'.can_rcv_error <=> ~CS'.can_strs
      /\ self'.can_error_counter =
           IF CS'.can_strs THEN self.can_error_counter ELSE self.can_error_counter + 1
      /\ self'.can_error_counter >= self.can_error_counter
      /\ self'.initialized
         => ("canError" \in self'.events <=> (self'.can_rcv_error \/ ~CS'.canValid)) ]_vars

\* an initialized tick with a valid bus that raised canError for the second
\* empty drain, after a tick that received frames
C26_Witness ==
  /\ self.initialized
  /\ ~CS.can_strs
  /\ CS.canValid
  /\ self.can_rcv_error
  /\ self.can_error_counter = 2
  /\ sm.frame = 3
  /\ "canError" \in self.events

\* C27: the CarControl handed to the vehicle interface's update call in the
\* Sample phase of a tick is the empty message of the constructor in the first
\* tick and the message the tick before built and published in every later
\* one, and a tick changes self.CC only by publishing.
C27_CarControlHandedOn ==
  [][ /\ io'.CI_update = IF sm.frame = -1 THEN <<CarControl_new_message>>
                                          ELSE io.carControl
      /\ self'.CC = IF io'.carControl = <<>> THEN self.CC ELSE io'.carControl[1] ]_vars

\* a tick whose update call got an engaged CarControl with the controllers'
\* output, while the tick itself publishes a disengaged one
C27_Witness ==
  /\ sm.frame >= 1
  /\ io.CI_update # <<>>
  /\ io.CI_update[1].enabled
  /\ io.CI_update[1].actuators.accel = Fin(1)
  /\ io.carControl # <<>>
  /\ ~io.carControl[1].enabled
  /\ self.CC = io.carControl[1]

\* how often an alert type is in current_alert_types
Attached(type) ==
  Cardinality({i \in DOMAIN self.current_alert_types :
                 self.current_alert_types[i] = type})

TransitionTypes ==
  {ET.USER_DISABLE, ET.IMMEDIATE_DISABLE, ET.SOFT_DISABLE, ET.PRE_ENABLE,
   ET.NO_ENTRY, ET.ENABLE}

\* how many of the transition alert types are in current_alert_types
AttachedTransitions ==
  Cardinality({i \in DOMAIN self.current_alert_types :
                 self.current_alert_types[i] \in TransitionTypes})

\* the tick ran out of soft-disable time: it began in softDisabling, no user or
\* immediate disable was present, and it ends disabled
TimerExpired ==
  /\ io.state_was = State.softDisabling
  /\ self.state = State.disabled
  /\ ~any(self.events, ET.USER_DISABLE)
  /\ ~any(self.events, ET.IMMEDIATE_DISABLE)

\* C28: after every run of state_transition current_alert_types holds
\* PERMANENT, holds WARNING iff active is true, and holds at most one of
\* USER_DISABLE, IMMEDIATE_DISABLE, SOFT_DISABLE, PRE_ENABLE, NO_ENTRY and
\* ENABLE; SOFT_DISABLE is attached exactly when the tick ends in
\* softDisabling, and the tick whose timer expires into disabled attaches none
\* of them.
C28_AlertTypes ==
  io.ran_state_transition
  => /\ Attached(ET.PERMANENT) = 1
     /\ Attached(ET.WARNING) = (IF self.active THEN 1 ELSE 0)
     /\ AttachedTransitions <= 1
     /\ Attached(ET.SOFT_DISABLE) = 1 <=> self.state = State.softDisabling
     /\ TimerExpired => AttachedTransitions = 0

\* the tick in which the soft-disable timer expires
C28_Witness ==
  /\ io.ran_state_transition
  /\ TimerExpired
  /\ self.soft_disable_timer = 0
  /\ soft_age = 0
  /\ any(self.events, ET.SOFT_DISABLE)
  /\ self.current_alert_types = <<ET.PERMANENT>>

\* the changes of state the machine can make
StateChanges ==
  {<<State.disabled, State.preEnabled>>, <<State.disabled, State.enabled>>,
   <<State.preEnabled, State.enabled>>, <<State.enabled, State.softDisabling>>,
   <<State.softDisabling, State.enabled>>}
  \cup {<<from, State.disabled>> : from \in Engaged}

\* the event set of the tick has an event that can disable
CanDisable(events) ==
  \/ any(events, ET.USER_DISABLE)
  \/ any(events, ET.IMMEDIATE_DISABLE)
  \/ any(events, ET.SOFT_DISABLE)

\* C29: the state changes only from disabled to preEnabled or enabled, from
\* preEnabled to enabled, from enabled to softDisabling, from softDisabling to
\* enabled, and from a non-disabled state to disabled, and only in a tick that
\* runs state_transition; a tick whose events carry no USER_DISABLE,
\* IMMEDIATE_DISABLE or SOFT_DISABLE type (NO_ENTRY, WARNING or PERMANENT
\* events alone, say) moves no non-disabled state to disabled.
C29_StateChanges ==
  [][ /\ self'.state # self.state
         => Ran /\ <<self.state, self'.state>> \in StateChanges
      /\ (self.state \in Engaged /\ ~CanDisable(self'.events))
         => self'.state # State.disabled ]_vars

\* softDisabling left for enabled in a tick whose only event is a NO_ENTRY one
C29_Witness ==
  /\ io.ran_state_transition
  /\ io.state_was = State.softDisabling
  /\ self.state = State.enabled
  /\ self.events = {"belowEngageSpeed"}
  /\ any(self.events, ET.NO_ENTRY)

\* C30: at the end of every tick that ends in softDisabling the timer is
\* within 1..300 and counts the ticks left: it is 300 less the ticks spent in
\* softDisabling since the entry, so no stay in softDisabling lasts past the
\* 300th tick after its entry.
C30_SoftDisablingBounded ==
  self.state = State.softDisabling
  => /\ 1 <= self.soft_disable_timer
     /\ self.soft_disable_timer <= SOFT_DISABLE_TICKS
     /\ self.soft_disable_timer = SOFT_DISABLE_TICKS - soft_age
     /\ soft_age < SOFT_DISABLE_TICKS

\* the last tick a stay in softDisabling can have
C30_Witness ==
  /\ self.state = State.softDisabling
  /\ io.state_was = State.softDisabling
  /\ self.soft_disable_timer = 1
  /\ soft_age = SOFT_DISABLE_TICKS - 1

\* C31: mismatch_counter is 0 after the Sample phase of every tick that the
\* supervisor begins not enabled, grows by at most 1 per tick and never
\* exceeds 200: the tick in which it reaches 200 ends disabled and not
\* enabled, and the Sample phase of the next tick resets it to 0.
C31_MismatchCounter ==
  [][ /\ ~self.enabled => self'.mismatch_counter = 0
      /\ self'.mismatch_counter <= self.mismatch_counter + 1
      /\ self.mismatch_counter <= MISMATCH_LIMIT
      /\ self'.mismatch_counter <= MISMATCH_LIMIT
      /\ self'.mismatch_counter = MISMATCH_LIMIT
         => /\ self'.state = State.disabled
            /\ ~self'.enabled
            /\ "controlsMismatch" \in self'.events
      /\ self.mismatch_counter = MISMATCH_LIMIT => self'.mismatch_counter = 0 ]_vars

\* the tick whose Sample phase brought the counter to 200: it began engaged
\* and ends disabled on the immediate disable
C31_Witness ==
  /\ self.mismatch_counter = MISMATCH_LIMIT
  /\ io.state_was \in Engaged
  /\ io.ran_state_transition
  /\ self.state = State.disabled
  /\ ~self.enabled
  /\ ~self.active
  /\ self.current_alert_types = <<ET.PERMANENT, ET.IMMEDIATE_DISABLE>>

\* the actuators of the tick that led to the primed state, as the controllers
\* or the joystick gave them
Commanded == IF self.joystick_mode THEN joystick(self', CS') ELSE controllers(CS')

\* that tick saw angle-control saturation with the driver's hands off the wheel
HandsOffSaturation ==
  angle_control_saturated(self', Commanded, CS') /\ ~CS'.steeringPressed

\* the condition under which that tick may raise steerSaturated
MayRaise ==
  /\ \/ lac_log_saturated(self', CS') /\ ~CS'.steeringPressed
     \/ self'.saturated_count > 100
  /\ deviated(Commanded, CS')

\* the events that tick's state-transition phase saw
SeenByTransition ==
  update_events(
    data_sample([self |-> self, sm |-> sm, io |-> NoIo, ok |-> TRUE,
                 actuators |-> CarControl_new_message.actuators], CS'), CS').self.events

\* steerSaturated does not reach a state transition: the phase of the tick
\* that raises it has passed, and the next tick ends as it would without it
KeptFromTransition ==
  /\ "steerSaturated" \notin SeenByTransition
  /\ "steerSaturated" \in self.events
     => tick(self, sm, CS').self.state =
          tick([self EXCEPT !.events = @ \ {"steerSaturated"}], sm, CS').self.state

\* C32, as stated: saturated_count goes up by 1 in a tick with angle-control
\* saturation and the driver not pressing and is 0 after any other tick;
\* steerSaturated is raised only if the controller log reports saturation with
\* the driver not pressing or the count is above 100, and the path deviates
\* against the steer command; the event reaches no state transition.
C32_Saturation ==
  [][ /\ self'.saturated_count =
           IF HandsOffSaturation THEN self.saturated_count + 1 ELSE 0
      /\ "steerSaturated" \in self'.events => MayRaise
      /\ KeptFromTransition ]_vars

\* C32, amended: the same with the count going up only in ticks in which the
\* supervisor is active as well.
C32_SaturationWhileActive ==
  [][ /\ self'.saturated_count =
           IF HandsOffSaturation /\ self'.active
             THEN self.saturated_count + 1 ELSE 0
      /\ "steerSaturated" \in self'.events => MayRaise
      /\ KeptFromTransition ]_vars

\* the 101st tick of angle saturation in a row raises the event with the
\* controller log reporting none, and the supervisor stays enabled
C32_Witness ==
  /\ self.saturated_count = STEER_ANGLE_SATURATION_TIMEOUT + 1
  /\ ~CS.lac_saturated
  /\ ~self.joystick_mode
  /\ "steerSaturated" \in self.events
  /\ io.state_was = State.enabled
  /\ self.state = State.enabled

====
